---- MODULE Spec2Model ----
(***************************************************************************)
(* Model of nequip/data/_nl.py: the module-level configuration read and    *)
(* neighbor_list_and_relative_vec.                                         *)
(*                                                                         *)
(* Geometry is integer valued.  A cell is the triple of the lengths of     *)
(* three mutually orthogonal lattice vectors (0 = an all-zero row), a      *)
(* position is an integer 3-vector, and the cutoff test d < r_max is done  *)
(* on squared lengths.                                                     *)
(***************************************************************************)
EXTENDS Integers, Sequences, FiniteSets, TLC

(* ---------------- bounds of the model ---------------- *)
MaxAtoms == 2
MaxCutoff == 2

(* ---------------- input domains ---------------- *)
Unset == "<unset>"
NoArg == "<default>"

\* the pbc argument: a bool, or a 3-tuple of bool
PbcBool(b) == [is_bool |-> TRUE, b |-> b, t |-> <<>>]
PbcTuple(t) == [is_bool |-> FALSE, b |-> FALSE, t |-> t]

\* the cell argument: None, or a 3x3 matrix
NoCell == [given |-> FALSE, m |-> <<0, 0, 0>>]
CellOf(m) == [given |-> TRUE, m |-> m]

\* how an argument is held: a torch.Tensor, a numpy array or a nested list,
\* with its device and its floating type
Kind(type, device, dtype) == [type |-> type, device |-> device, dtype |-> dtype]
HostArray == Kind("ndarray", "cpu", "float64")
Devices == {"cpu", "cuda"}
Dtypes == {"float32", "float64"}
TensorKinds == {Kind("tensor", d, t) : d \in Devices, t \in Dtypes}
ArrayKinds == {Kind("ndarray", "cpu", t) : t \in Dtypes} \cup {Kind("list", "cpu", "float64")}

EnvNLValues == {Unset, "ase", "Vesin", "lammps"}
EnvErrValues == {Unset, "False", "0"}
NLArgs == {NoArg, "ase", "matscipy", "vesin", "lammps"}
PbcInputs == {PbcBool(TRUE), PbcBool(FALSE), PbcTuple(<<TRUE, FALSE, TRUE>>),
              PbcTuple(<<TRUE, FALSE, FALSE>>)}
CellInputs == {NoCell, CellOf(<<2, 2, 2>>), CellOf(<<2, 0, 0>>)}
AtomSites == <<<<0, 0, 0>>, <<1, 0, 0>>, <<0, 1, 0>>, <<1, 1, 0>>>>
PosInputs == {[k \in 1..n |-> AtomSites[k]] : n \in 1..MaxAtoms}
CutoffInputs == 1..MaxCutoff

ZeroShift == <<0, 0, 0>>
ZeroCell == <<0, 0, 0>>

VARIABLES
    env,                 \* os.environ: NEQUIP_NL, NEQUIP_ERROR_ON_NO_EDGES
    module,              \* "unloaded" | "loaded" | "failed"
    NEQUIP_NL,           \* _NEQUIP_NL
    ERROR_ON_NO_EDGES,   \* _ERROR_ON_NO_EDGES
    pc,                  \* position of the current call
    args,                \* arguments of the current call
    pbc,                 \* local pbc after normalisation
    temp_cell,           \* local temp_cell
    cell_tensor,         \* local cell_tensor
    bound,               \* whether first_idex, second_idex, shifts are assigned
    first_idex,
    second_idex,
    shifts,
    nl_log,              \* backend searches invoked by the current call
    out_device,          \* local out_device
    out_dtype,           \* local out_dtype
    warnings,            \* warnings.warn calls of the current call
    cell_shares,         \* cell_tensor shares its storage with the caller's cell
    caller_cell,         \* the value held by the caller's cell object
    last,                \* inputs and outcome of the call the caller kept
    cli,                 \* nequip-evaluate: the parsed command line
    session,             \* nequip-evaluate: trainer.pth and the datasets of the config
    e_pc,                \* nequip-evaluate: position of main before the batch loop
    dataset_is_from_training,
    idcs_loaded,         \* train_idcs and val_idcs are sets, not None
    train_idcs,
    val_idcs,
    dataset_is_validation,
    dataset_len,         \* len(dataset)
    test_idcs,
    opts,                \* nequip-evaluate: --repeat, --batch-size, --distributed, ...
    rk_pc,               \* per rank: position of main from the division of frames on
    rank_idcs,           \* per rank: test_idcs after the division between ranks
    batch_i,             \* per rank
    this_batch_test_indexes,
    evaluated,           \* per rank: the batches given to the model so far
    gathers,             \* per rank: calls of metrics.gather so far
    output,              \* per rank: the file object of the rank's output
    rankfile,            \* per rank: the directory entry of <stem>-rank<r>.xyz
    merged,              \* the file args.output
    copied,              \* per rank file: how rank zero found it when copying it
    merge_i,             \* rank zero's position in output_files
    result,              \* returned (edge_index, shifts, cell_tensor)
    error                \* exception raised by the import or the call

vars == <<env, module, NEQUIP_NL, ERROR_ON_NO_EDGES, pc, args, pbc, temp_cell,
          cell_tensor, bound, first_idex, second_idex, shifts, nl_log, result, error,
          out_device, out_dtype, warnings, cell_shares, caller_cell, last,
          cli, session, e_pc, dataset_is_from_training, idcs_loaded, train_idcs,
          val_idcs, dataset_is_validation, dataset_len, test_idcs,
          opts, rk_pc, rank_idcs, batch_i, this_batch_test_indexes, evaluated, gathers,
          output, rankfile, merged, copied, merge_i>>

cfgvars == <<env, module, NEQUIP_NL, ERROR_ON_NO_EDGES>>
prep == <<out_device, out_dtype, warnings, cell_shares>>
locals == <<pbc, temp_cell, cell_tensor, bound, first_idex, second_idex, shifts, nl_log,
            prep>>
testvars == <<cli, session, e_pc, dataset_is_from_training, idcs_loaded, train_idcs,
              val_idcs, dataset_is_validation, dataset_len, test_idcs>>
rankvars == <<opts, rk_pc, rank_idcs, batch_i, this_batch_test_indexes, evaluated,
              gathers, output, rankfile, merged, copied, merge_i>>
rest == <<last, testvars, rankvars>>

NoError == [type |-> "none", at |-> "none", value |-> "none"]
NoResult == [edge_index |-> <<<<>>, <<>>>>, shifts |-> <<>>, cell |-> ZeroCell,
             edge_index_device |-> "cpu", shifts_device |-> "cpu",
             shifts_dtype |-> "float64", cell_device |-> "cpu",
             cell_dtype |-> "float64", cell_shares |-> FALSE]
NoArgs == [pos |-> <<>>, r_max |-> 0, self_interaction |-> FALSE,
           strict_self_interaction |-> TRUE, cell |-> NoCell, pbc |-> PbcBool(FALSE),
           NL_arg |-> NoArg, NL |-> NoArg, pos_kind |-> HostArray,
           cell_kind |-> HostArray]
NoLast == [kept |-> FALSE, inputs |-> NoArgs, env |-> <<>>, pc |-> "idle",
           result |-> NoResult, error |-> NoError]

(* ---------------- module import: lines 18-31 ---------------- *)

\* str.lower() on the strings of the input domains
Lower(s) ==
    CASE s = "Vesin" -> "vesin"
      [] s = "False" -> "false"
      [] OTHER -> s

\* os.environ.get(name, default)
EnvGet(value, default) == IF value = Unset THEN default ELSE value

ErrSetting == Lower(EnvGet(env.NEQUIP_ERROR_ON_NO_EDGES, "true"))

\* "ase" as the fallback of os.environ.get
DefaultNL_ase == "ase"

\* line 26: the fallback of os.environ.get("NEQUIP_NL", ...)
DefaultNL == "matscipy"

NLSetting == Lower(EnvGet(env.NEQUIP_NL, DefaultNL))

KnownNL == {"ase", "matscipy", "vesin"}

\* nequip-evaluate is not running
NoCli == [train_dir |-> FALSE, dataset_config |-> FALSE, test_indexes |-> FALSE]
NoSession == [n_train |-> 0, n_val |-> 0, validation_dataset |-> FALSE,
              train_idcs |-> {}, val_idcs |-> {}, indexes_file |-> {}]

NoOpts == [n |-> 0, repeat |-> 1, batch_size |-> 1, distributed |-> FALSE,
           world_size |-> 0, do_metrics |-> FALSE, output |-> FALSE]
NoFile == [exists |-> FALSE, content |-> <<>>]

RanksIdle ==
    /\ opts = NoOpts
    /\ rk_pc = <<>>
    /\ rank_idcs = <<>>
    /\ batch_i = <<>>
    /\ this_batch_test_indexes = <<>>
    /\ evaluated = <<>>
    /\ gathers = <<>>
    /\ output = <<>>
    /\ rankfile = <<>>
    /\ merged = NoFile
    /\ copied = <<>>
    /\ merge_i = 0

TestIdle ==
    /\ cli = NoCli
    /\ session = NoSession
    /\ e_pc = "off"
    /\ dataset_is_from_training = FALSE
    /\ idcs_loaded = FALSE
    /\ train_idcs = {}
    /\ val_idcs = {}
    /\ dataset_is_validation = FALSE
    /\ dataset_len = 0
    /\ test_idcs = {}

EvaluateIdle == TestIdle /\ RanksIdle

\* the state before the first call of neighbor_list_and_relative_vec
NLStart ==
    /\ module = "unloaded"
    /\ NEQUIP_NL = Unset
    /\ ERROR_ON_NO_EDGES = FALSE
    /\ pc = "idle"
    /\ args = NoArgs
    /\ pbc = <<FALSE, FALSE, FALSE>>
    /\ temp_cell = ZeroCell
    /\ cell_tensor = ZeroCell
    /\ bound = FALSE
    /\ first_idex = <<>>
    /\ second_idex = <<>>
    /\ shifts = <<>>
    /\ nl_log = <<>>
    /\ result = NoResult
    /\ error = NoError
    /\ out_device = "cpu"
    /\ out_dtype = "float64"
    /\ warnings = 0
    /\ cell_shares = FALSE
    /\ caller_cell = ZeroCell
    /\ last = NoLast

Init ==
    /\ env \in [NEQUIP_NL : EnvNLValues, NEQUIP_ERROR_ON_NO_EDGES : EnvErrValues]
    /\ NLStart
    /\ EvaluateIdle

LoadModule ==
    /\ module = "unloaded"
    /\ IF ErrSetting \notin {"true", "false"}
       THEN /\ module' = "failed"
            /\ error' = [type |-> "AssertionError", at |-> "_ERROR_ON_NO_EDGES",
                         value |-> "none"]
            /\ UNCHANGED <<NEQUIP_NL, ERROR_ON_NO_EDGES>>
       ELSE IF NLSetting \notin KnownNL
       THEN /\ module' = "failed"
            /\ error' = [type |-> "AssertionError", at |-> "_NEQUIP_NL",
                         value |-> NLSetting]
            /\ ERROR_ON_NO_EDGES' = (ErrSetting = "true")
            /\ UNCHANGED NEQUIP_NL
       ELSE /\ module' = "loaded"
            /\ ERROR_ON_NO_EDGES' = (ErrSetting = "true")
            /\ NEQUIP_NL' = NLSetting
            /\ UNCHANGED error
    /\ UNCHANGED <<env, pc, args, result, caller_cell>>
    /\ UNCHANGED locals
    /\ UNCHANGED rest

(* ---------------- neighbor_list_and_relative_vec ---------------- *)

\* the environment read again at every call
NLDefault_environ == NLSetting

\* line 41: the default of the NL parameter, bound when the module is loaded
NLDefault == NEQUIP_NL

\* lines 34-42: the call binds its arguments; NL defaults to _NEQUIP_NL
CallWith(Pos, Cutoffs, Cells, Pbcs, NLs, PosKinds, CellKinds) ==
    /\ module = "loaded"
    /\ pc = "idle"
    /\ \E p \in Pos, r \in Cutoffs, si \in BOOLEAN, ssi \in BOOLEAN,
          c \in Cells, b \in Pbcs, nl \in NLs, pk \in PosKinds, ck \in CellKinds :
          /\ args' = [pos |-> p, r_max |-> r, self_interaction |-> si,
                      strict_self_interaction |-> ssi, cell |-> c, pbc |-> b,
                      NL_arg |-> nl,
                      NL |-> IF nl = NoArg THEN NLDefault ELSE nl,
                      pos_kind |-> pk,
                      cell_kind |-> IF c.given THEN ck ELSE HostArray]
          /\ caller_cell' = c.m
    /\ pc' = "prepare"
    /\ UNCHANGED cfgvars
    /\ UNCHANGED locals
    /\ UNCHANGED rest
    /\ UNCHANGED <<result, error>>

\* a call with host arrays, over the geometric inputs
Call ==
    CallWith(PosInputs, CutoffInputs, CellInputs, PbcInputs, NLArgs,
             {HostArray}, {HostArray})

\* ase.geometry.complete_cell: every all-zero row is replaced by a unit
\* vector orthogonal to the other rows; the other rows are kept
complete_cell(cell) == [k \in 1..3 |-> IF cell[k] = 0 THEN 1 ELSE cell[k]]

\* lines 78-79
NormalizePbc(b) == IF b.is_bool THEN <<b.b, b.b, b.b>> ELSE b.t

\* an identity matrix in place of np.zeros for cell=None
HostCell_eye(cell) == IF cell.given THEN cell.m ELSE <<1, 1, 1>>

\* lines 97-107: temp_cell before completion
HostCell(cell) == IF cell.given THEN cell.m ELSE ZeroCell

\* torch.get_default_dtype()
TorchDefaultDtype == "float32"

\* the outputs left on the host
OutDevice_host(kind) == "cpu"

\* lines 82-89: the device and type of the outputs
OutDevice(kind) == IF kind.type = "tensor" THEN kind.device ELSE "cpu"
OutDtype(kind) == IF kind.type = "tensor" THEN kind.dtype ELSE TorchDefaultDtype

\* lines 92-95: the advisory is given for every device but the host
NeedsAdvisory(device) == device # "cpu"

\* lines 98-107: whether cell_tensor is a view of the caller's cell.
\* Tensor.to returns the tensor itself when device and dtype already fit;
\* np.asarray of an ndarray is that ndarray, and torch.as_tensor of it shares
\* its memory when it stays on the host with the same dtype
SharesCallerCell(cell, kind, device, dtype) ==
    /\ cell.given
    /\ kind.type \in {"tensor", "ndarray"}
    /\ kind.device = device
    /\ kind.dtype = dtype

\* lines 78-110
Prepare ==
    /\ pc = "prepare"
    /\ pbc' = NormalizePbc(args.pbc)
    /\ out_device' = OutDevice(args.pos_kind)
    /\ out_dtype' = OutDtype(args.pos_kind)
    /\ warnings' = IF NeedsAdvisory(OutDevice(args.pos_kind)) THEN warnings + 1 ELSE warnings
    /\ cell_tensor' = HostCell(args.cell)
    /\ cell_shares' = SharesCallerCell(args.cell, args.cell_kind,
                                       OutDevice(args.pos_kind), OutDtype(args.pos_kind))
    /\ temp_cell' = complete_cell(HostCell(args.cell))
    /\ pc' = "dispatch"
    /\ UNCHANGED cfgvars
    /\ UNCHANGED rest
    /\ UNCHANGED <<args, bound, first_idex, second_idex, shifts, nl_log, result, error,
                   caller_cell>>

(* ---------------- the backends' neighbor searches ---------------- *)

Abs(x) == IF x < 0 THEN -x ELSE x

Max(S) == CHOOSE x \in S : \A y \in S : y <= x

\* largest difference of two atoms' coordinates along axis k
Span(pos, k) == Max({Abs(pos[i][k] - pos[j][k]) : i, j \in 1..Len(pos)})

\* along a periodic axis only the images -ShiftReach..ShiftReach can be in range
ShiftReach(pos, cell, r, k) == (r + Span(pos, k)) \div cell[k]

ShiftLow(pos, cell, per, r, k) == IF per[k] THEN -ShiftReach(pos, cell, r, k) ELSE 0

ShiftCount(pos, cell, per, r, k) ==
    IF per[k] THEN 2 * ShiftReach(pos, cell, r, k) + 1 ELSE 1

\* squared length of pos[j] + S . cell - pos[i]; atoms are numbered from 0
Dist2(pos, cell, i, j, S) ==
    LET d(k) == pos[j + 1][k] + S[k] * cell[k] - pos[i + 1][k]
    IN d(1) * d(1) + d(2) * d(2) + d(3) * d(3)

\* every (i, j, S) candidate, ordered by i, then j, then S
AllImages(pos, cell, per, r) ==
    LET n == Len(pos)
        n1 == ShiftCount(pos, cell, per, r, 1)
        n2 == ShiftCount(pos, cell, per, r, 2)
        n3 == ShiftCount(pos, cell, per, r, 3)
        ns == n1 * n2 * n3
        Decode(x) ==
            LET a == x \div ns
                b == x % ns
            IN <<a \div n, a % n,
                 <<ShiftLow(pos, cell, per, r, 1) + (b \div (n2 * n3)),
                   ShiftLow(pos, cell, per, r, 2) + ((b \div n3) % n2),
                   ShiftLow(pos, cell, per, r, 3) + (b % n3)>>>>
    IN [x \in 1..(n * n * ns) |-> Decode(x - 1)]

IsTrivialSelf(e) == e[1] = e[2] /\ e[3] = ZeroShift

Reverse(s) == [x \in 1..Len(s) |-> s[Len(s) + 1 - x]]

\* ase.neighborlist.primitive_neighbor_list("ijS", ...): the full list of
\* the pairs closer than cutoff; self_interaction=False removes the
\* self-pairs that do not cross the cell boundary
primitive_neighbor_list(per, cell, pos, cutoff, self_interaction) ==
    LET InRange(e) == /\ Dist2(pos, cell, e[1], e[2], e[3]) < cutoff * cutoff
                      /\ (self_interaction \/ ~IsTrivialSelf(e))
    IN SelectSeq(AllImages(pos, cell, per, cutoff), InRange)

\* pairs at exactly the cutoff distance counted as neighbours
matscipy_nl_inclusive(per, cell, pos, cutoff) ==
    LET InRange(e) == /\ Dist2(pos, cell, e[1], e[2], e[3]) <= cutoff * cutoff
                      /\ ~IsTrivialSelf(e)
    IN SelectSeq(AllImages(pos, cell, per, cutoff), InRange)

\* matscipy.neighbours.neighbour_list("ijS", ...): the full list of the
\* pairs closer than cutoff, an atom is never its own zero-shift neighbour
matscipy_nl(per, cell, pos, cutoff) ==
    LET InRange(e) == /\ Dist2(pos, cell, e[1], e[2], e[3]) < cutoff * cutoff
                      /\ ~IsTrivialSelf(e)
    IN SelectSeq(AllImages(pos, cell, per, cutoff), InRange)

\* full_list=False: each pair once
vesin_nl_half(cutoff, pos, box, periodic) ==
    LET per == <<periodic, periodic, periodic>>
        InRange(e) == /\ Dist2(pos, box, e[1], e[2], e[3]) < cutoff * cutoff
                      /\ ~IsTrivialSelf(e)
                      /\ e[1] <= e[2]
    IN Reverse(SelectSeq(AllImages(pos, box, per, cutoff), InRange))

\* vesin.NeighborList(cutoff, full_list=True).compute(..., quantities="ijS"):
\* one periodic flag for the three axes; pairs in the order of its cell list
vesin_nl(cutoff, pos, box, periodic) ==
    LET per == <<periodic, periodic, periodic>>
        InRange(e) == /\ Dist2(pos, box, e[1], e[2], e[3]) < cutoff * cutoff
                      /\ ~IsTrivialSelf(e)
    IN Reverse(SelectSeq(AllImages(pos, box, per, cutoff), InRange))

\* unpacking of the "ijS" triple
Column(nl, c) == [x \in 1..Len(nl) |-> nl[x][c]]

(* ---------------- lines 112-147: backend dispatch ---------------- *)

Raise(type, at, value) ==
    /\ pc' = "raised"
    /\ error' = [type |-> type, at |-> at, value |-> value]

\* first_idex, second_idex, shifts = <search>
Assign(nl, backend, cell, per, si) ==
    /\ first_idex' = Column(nl, 1)
    /\ second_idex' = Column(nl, 2)
    /\ shifts' = Column(nl, 3)
    /\ bound' = TRUE
    /\ nl_log' = Append(nl_log, [backend |-> backend, cell |-> cell, pbc |-> per,
                                  self_interaction |-> si, edges |-> Len(nl)])
    /\ pc' = "filter"
    /\ UNCHANGED error

\* the assertion written with "or"
FlagsSupported_or == args.strict_self_interaction \/ ~args.self_interaction

\* lines 113, 130: assert strict_self_interaction and not self_interaction
FlagsSupported == args.strict_self_interaction /\ ~args.self_interaction

\* periodic = all(pbc), with no error for disagreeing axes
vesin_periodic_all(per) == IF per[1] /\ per[2] /\ per[3] THEN "periodic" ELSE "open"

\* lines 116-123: the three-way test of the pbc flags
vesin_periodic(per) ==
    IF per[1] /\ per[2] /\ per[3] THEN "periodic"
    ELSE IF ~per[1] /\ ~per[2] /\ ~per[3] THEN "open"
    ELSE "mixed"

\* lines 112-127
SearchVesin ==
    /\ pc = "dispatch"
    /\ args.NL = "vesin"
    /\ IF ~FlagsSupported
       THEN /\ Raise("AssertionError", "flags", "none")
            /\ UNCHANGED <<bound, first_idex, second_idex, shifts, nl_log>>
       ELSE IF vesin_periodic(pbc) = "mixed"
       THEN /\ Raise("ValueError", "mixed_pbc", "none")
            /\ UNCHANGED <<bound, first_idex, second_idex, shifts, nl_log>>
       ELSE LET periodic == (vesin_periodic(pbc) = "periodic")
            IN Assign(vesin_nl(args.r_max, args.pos, temp_cell, periodic),
                      "vesin", temp_cell, <<periodic, periodic, periodic>>, FALSE)
    /\ UNCHANGED cfgvars
    /\ UNCHANGED rest
    /\ UNCHANGED prep
    /\ UNCHANGED <<args, pbc, temp_cell, cell_tensor, result, caller_cell>>

\* lines 129-137
SearchMatscipy ==
    /\ pc = "dispatch"
    /\ args.NL = "matscipy"
    /\ IF ~FlagsSupported
       THEN /\ Raise("AssertionError", "flags", "none")
            /\ UNCHANGED <<bound, first_idex, second_idex, shifts, nl_log>>
       ELSE Assign(matscipy_nl(pbc, temp_cell, args.pos, args.r_max),
                   "matscipy", temp_cell, pbc, FALSE)
    /\ UNCHANGED cfgvars
    /\ UNCHANGED rest
    /\ UNCHANGED prep
    /\ UNCHANGED <<args, pbc, temp_cell, cell_tensor, result, caller_cell>>

\* the caller's self_interaction handed to ase in place of strict_self_interaction
ase_self_interaction_plain == args.self_interaction

\* line 145: the self_interaction keyword given to ase
ase_self_interaction == args.strict_self_interaction

\* lines 138-147
SearchAse ==
    /\ pc = "dispatch"
    /\ args.NL = "ase"
    /\ Assign(primitive_neighbor_list(pbc, temp_cell, args.pos, args.r_max,
                                       ase_self_interaction),
              "ase", temp_cell, pbc, ase_self_interaction)
    /\ UNCHANGED cfgvars
    /\ UNCHANGED rest
    /\ UNCHANGED prep
    /\ UNCHANGED <<args, pbc, temp_cell, cell_tensor, result, caller_cell>>

\* lines 112, 129, 138: no branch of the if/elif chain is taken
NoBackend ==
    /\ pc = "dispatch"
    /\ args.NL \notin {"vesin", "matscipy", "ase"}
    /\ pc' = "filter"
    /\ UNCHANGED cfgvars
    /\ UNCHANGED rest
    /\ UNCHANGED <<args, result, error, caller_cell>>
    /\ UNCHANGED locals

(* ---------------- lines 149-160: the self-edge filter ---------------- *)

\* the test first_idex == second_idex left out
bad_edge_shift_only(first, second, sh) ==
    [x \in 1..Len(first) |-> sh[x] = ZeroShift]

\* lines 151-152
bad_edge(first, second, sh) ==
    [x \in 1..Len(first) |-> first[x] = second[x] /\ sh[x] = ZeroShift]

\* keep_edge = bad_edge, the negation forgotten
keep_edge_unnegated(bad) == [x \in 1..Len(bad) |-> bad[x]]

\* line 153
keep_edge(bad) == [x \in 1..Len(bad) |-> ~bad[x]]

\* np.all in place of np.any
np_all(mask) == \A x \in 1..Len(mask) : mask[x]

\* np.any
np_any(mask) == \E x \in 1..Len(mask) : mask[x]

\* boolean-mask indexing a[mask]
Masked(a, mask) ==
    LET Kept(x) == mask[x]
        idx == SelectSeq([x \in 1..Len(a) |-> x], Kept)
    IN [y \in 1..Len(idx) |-> a[idx[y]]]

Filter ==
    /\ pc = "filter"
    /\ IF args.self_interaction
       THEN /\ pc' = "build"
            /\ UNCHANGED <<first_idex, second_idex, shifts, error>>
       ELSE IF ~bound
       THEN /\ Raise("UnboundLocalError", "filter", "first_idex")
            /\ UNCHANGED <<first_idex, second_idex, shifts>>
       ELSE LET keep == keep_edge(bad_edge(first_idex, second_idex, shifts))
            IN IF ERROR_ON_NO_EDGES /\ ~np_any(keep)
               THEN /\ Raise("ValueError", "no_edges", "r_max")
                    /\ UNCHANGED <<first_idex, second_idex, shifts>>
               ELSE /\ first_idex' = Masked(first_idex, keep)
                    /\ second_idex' = Masked(second_idex, keep)
                    /\ shifts' = Masked(shifts, keep)
                    /\ pc' = "build"
                    /\ UNCHANGED error
    /\ UNCHANGED cfgvars
    /\ UNCHANGED rest
    /\ UNCHANGED prep
    /\ UNCHANGED <<args, pbc, temp_cell, cell_tensor, bound, nl_log, result, caller_cell>>

(* ---------------- lines 162-172: the outputs ---------------- *)

Build ==
    /\ pc = "build"
    /\ IF ~bound
       THEN /\ Raise("UnboundLocalError", "build", "first_idex")
            /\ UNCHANGED result
       ELSE /\ result' = [edge_index |-> <<first_idex, second_idex>>,
                          shifts |-> shifts, cell |-> cell_tensor,
                          edge_index_device |-> out_device,
                          shifts_device |-> out_device,
                          shifts_dtype |-> out_dtype,
                          cell_device |-> out_device,
                          cell_dtype |-> out_dtype,
                          cell_shares |-> cell_shares]
            /\ pc' = "returned"
            /\ UNCHANGED error
    /\ UNCHANGED cfgvars
    /\ UNCHANGED rest
    /\ UNCHANGED <<args, caller_cell>>
    /\ UNCHANGED locals

\* the frame of the call and its outcome are dropped
FrameGone ==
    /\ pc' = "idle"
    /\ args' = NoArgs
    /\ pbc' = <<FALSE, FALSE, FALSE>>
    /\ temp_cell' = ZeroCell
    /\ cell_tensor' = ZeroCell
    /\ bound' = FALSE
    /\ first_idex' = <<>>
    /\ second_idex' = <<>>
    /\ shifts' = <<>>
    /\ nl_log' = <<>>
    /\ result' = NoResult
    /\ error' = NoError
    /\ out_device' = "cpu"
    /\ out_dtype' = "float64"
    /\ warnings' = 0
    /\ cell_shares' = FALSE
    /\ caller_cell' = ZeroCell

\* the caller is done with the outcome of the call
Finish ==
    /\ pc \in {"returned", "raised"}
    /\ FrameGone
    /\ UNCHANGED cfgvars
    /\ UNCHANGED rest

Next ==
    \/ LoadModule
    \/ Call
    \/ Prepare
    \/ SearchVesin
    \/ SearchMatscipy
    \/ SearchAse
    \/ NoBackend
    \/ Filter
    \/ Build
    \/ Finish

Spec == Init /\ [][Next]_vars

(* ---------------- the returned edge list ---------------- *)

Returned == pc = "returned"

NumEdges == Len(result.edge_index[1])

Edge(x) == <<result.edge_index[1][x], result.edge_index[2][x], result.shifts[x]>>

EdgeSet == {Edge(x) : x \in 1..NumEdges}

Atoms == 0..(Len(args.pos) - 1)

\* number of returned trivial self-edges of atom a
TrivialSelfEdges(a) == Cardinality({x \in 1..NumEdges : Edge(x) = <<a, a, ZeroShift>>})

InCall == pc # "idle"

\* the three pbc flags of the call are not all equal
MixedPbc ==
    /\ InCall
    /\ ~args.pbc.is_bool
    /\ \E j, k \in 1..3 : args.pbc.t[j] # args.pbc.t[k]

\* every edge held by the call is a trivial self-edge, or there is none
OnlyTrivialSelfEdges ==
    \A x \in 1..Len(first_idex) : first_idex[x] = second_idex[x] /\ shifts[x] = ZeroShift

(* ---------------- C1 ---------------- *)

\* C1: a call with self_interaction=False that returns has no edge with
\* source = target and shift (0,0,0), whatever the backend and the inputs
C1_NoTrivialSelfEdge ==
    (Returned /\ ~args.self_interaction)
        => \A x \in 1..NumEdges : ~IsTrivialSelf(Edge(x))

\* the backend returned trivial self-edges and the filter removed them
C1_Witness ==
    /\ Returned
    /\ ~args.self_interaction
    /\ nl_log[1].edges > NumEdges
    /\ NumEdges > 0

(* ---------------- C2 ---------------- *)

\* C2 as stated: with self_interaction=True on ase, for every value of
\* strict_self_interaction, each atom has exactly one trivial self-edge
C2_Original ==
    (Returned /\ args.self_interaction /\ args.NL = "ase")
        => \A a \in Atoms : TrivialSelfEdges(a) = 1

\* C2 amended: with self_interaction=True on ase each atom has exactly one
\* trivial self-edge when strict_self_interaction=True and none when
\* strict_self_interaction=False
C2_Amended ==
    (Returned /\ args.self_interaction /\ args.NL = "ase")
        => \A a \in Atoms :
              TrivialSelfEdges(a) = IF args.strict_self_interaction THEN 1 ELSE 0

C2_Witness ==
    /\ Returned
    /\ args.self_interaction
    /\ args.NL = "ase"
    /\ ~args.strict_self_interaction
    /\ Len(args.pos) > 1
    /\ NumEdges > 0

(* ---------------- C3 ---------------- *)

\* C3: on matscipy or vesin, with flags other than strict_self_interaction=True
\* and self_interaction=False, the call fails on the assertion before any
\* backend search is invoked, and returns no edge list
C3_FlagGate ==
    (InCall /\ args.NL \in {"matscipy", "vesin"}
            /\ ~(args.strict_self_interaction /\ ~args.self_interaction))
        => /\ pc \in {"prepare", "dispatch", "raised"}
           /\ nl_log = <<>>
           /\ result = NoResult
           /\ pc = "raised" => (error.type = "AssertionError" /\ error.at = "flags")

C3_Witness ==
    /\ pc = "raised"
    /\ args.NL = "matscipy"
    /\ ~args.strict_self_interaction
    /\ ~args.self_interaction
    /\ error.at = "flags"
    /\ nl_log = <<>>

(* ---------------- C4 ---------------- *)

\* the vesin half of C4: a mixed-pbc request never reaches the search and
\* ends in the flag assertion or the mixed-pbc ValueError
C4_VesinRaises ==
    (MixedPbc /\ args.NL = "vesin")
        => /\ pc \in {"prepare", "dispatch", "raised"}
           /\ nl_log = <<>>
           /\ result = NoResult
           /\ pc = "raised" => error.at \in {"flags", "mixed_pbc"}

\* C4 as stated: a mixed-pbc request raises the configuration error on vesin
\* before any search, and the identical request on ase succeeds
C4_Original ==
    /\ C4_VesinRaises
    /\ (MixedPbc /\ args.NL = "ase") => pc # "raised"

\* C4 amended: a mixed-pbc request raises the configuration error on vesin
\* before any search; the identical request on ase runs the search and
\* returns, unless self_interaction=False, no edge is left by the filter and
\* the error-on-no-edges policy is active: then it raises the
\* degenerate-system error
C4_Amended ==
    /\ C4_VesinRaises
    /\ (MixedPbc /\ args.NL = "ase" /\ pc = "raised")
          => /\ error.type = "ValueError" /\ error.at = "no_edges"
             /\ ~args.self_interaction
             /\ ERROR_ON_NO_EDGES
             /\ Len(nl_log) = 1 /\ nl_log[1].pbc = args.pbc.t
             /\ OnlyTrivialSelfEdges
    /\ (MixedPbc /\ args.NL = "ase" /\ Returned)
          => (Len(nl_log) = 1 /\ nl_log[1].pbc = args.pbc.t)

C4_Witness ==
    /\ pc = "raised"
    /\ args.NL = "vesin"
    /\ MixedPbc
    /\ error.type = "ValueError"
    /\ error.at = "mixed_pbc"

(* ---------------- C5 ---------------- *)

NoEdgeRemains ==
    /\ bound
    /\ ~args.self_interaction
    /\ OnlyTrivialSelfEdges

\* C5: with self_interaction=False, when the filter leaves no edge (also when
\* the backend returned none), the call raises the degenerate-system error
\* under the error-on-no-edges policy and returns E = 0 under the opt-out
C5_NoEdgesPolicy ==
    [][/\ (pc = "filter" /\ NoEdgeRemains /\ pc' # "filter")
          => IF ERROR_ON_NO_EDGES
             THEN /\ pc' = "raised"
                  /\ error'.type = "ValueError"
                  /\ error'.at = "no_edges"
             ELSE /\ pc' = "build"
                  /\ Len(first_idex') = 0
       /\ (pc = "build" /\ NoEdgeRemains /\ pc' # "build")
          => /\ ~ERROR_ON_NO_EDGES
             /\ pc' = "returned"
             /\ Len(result'.edge_index[1]) = 0
             /\ Len(result'.edge_index[2]) = 0
             /\ Len(result'.shifts) = 0]_vars

\* only trivial self-edges came back, the opt-out is active, E = 0 is returned
C5_Witness ==
    /\ Returned
    /\ ~args.self_interaction
    /\ ~ERROR_ON_NO_EDGES
    /\ nl_log[1].edges > 0
    /\ NumEdges = 0

(* ---------------- C6 ---------------- *)

\* C6: under the default error-on-no-edges policy every call that returns,
\* for every backend and every flag combination, returns E >= 1 edges
C6_NonEmptyUnderDefaultPolicy ==
    (Returned /\ ERROR_ON_NO_EDGES) => NumEdges >= 1

(* ---------------- C7 ---------------- *)

HasZeroRow(m) == \E k \in 1..3 : m[k] = 0

\* C7 as stated: the returned cell is the completed lattice, the matrix that
\* was given to the backend search
C7_Original ==
    Returned => result.cell = nl_log[1].cell

\* C7 amended: the returned cell is the caller's cell as given, all zero for
\* cell=None; the backend search gets its completion, and the two are equal
\* only when the given cell has no all-zero row
C7_Amended ==
    Returned
        => /\ result.cell = (IF args.cell.given THEN args.cell.m ELSE ZeroCell)
           /\ \A k \in 1..3 :
                 nl_log[1].cell[k] = (IF result.cell[k] = 0 THEN 1 ELSE result.cell[k])
           /\ (result.cell = nl_log[1].cell) <=> ~HasZeroRow(result.cell)

C7_Witness ==
    /\ Returned
    /\ ~args.cell.given
    /\ result.cell = ZeroCell
    /\ nl_log[1].cell = <<1, 1, 1>>

(* ---------------- C8 ---------------- *)

DefaultedCall == InCall /\ env.NEQUIP_NL = Unset /\ args.NL_arg = NoArg

\* C8 as stated: with NEQUIP_NL unset, a call without an NL argument uses ase
C8_Original ==
    DefaultedCall
        => /\ args.NL = "ase"
           /\ \A x \in 1..Len(nl_log) : nl_log[x].backend = "ase"

\* C8 amended: with NEQUIP_NL unset, a call without an NL argument uses
\* matscipy
C8_Amended ==
    DefaultedCall
        => /\ args.NL = "matscipy"
           /\ \A x \in 1..Len(nl_log) : nl_log[x].backend = "matscipy"

C8_Witness ==
    /\ Returned
    /\ env.NEQUIP_NL = Unset
    /\ args.NL_arg = NoArg
    /\ Len(nl_log) = 1
    /\ nl_log[1].backend = "matscipy"

(* ---------------- C9 ---------------- *)

\* C9: a backend name outside {ase, matscipy, vesin}, from NEQUIP_NL or from
\* the NL argument, fails with an error naming the offending value; no search
\* is run and no edge list is returned
C9_UnknownBackendNamed ==
    /\ (env.NEQUIP_NL \notin {Unset, "ase", "matscipy", "vesin", "Vesin"}
            /\ module # "unloaded")
          => /\ module = "failed"
             /\ pc = "idle"
             /\ error.at = "_ERROR_ON_NO_EDGES" \/ error.value = env.NEQUIP_NL
    /\ (InCall /\ args.NL \notin KnownNL)
          => /\ nl_log = <<>>
             /\ ~Returned
             /\ pc = "raised" => error.value = args.NL

(* ---------------- C10 ---------------- *)

Neg(S) == <<-S[1], -S[2], -S[3]>>

\* C10: the returned edge set is closed under reversal: with (s, t, shift)
\* the edge (t, s, -shift) is returned too, for every backend and flags
C10_ReversalClosed ==
    Returned => \A e \in EdgeSet : <<e[2], e[1], Neg(e[3])>> \in EdgeSet

\* a pair of distinct atoms linked across a cell boundary, after the filter
\* removed trivial self-edges
C10_Witness ==
    /\ Returned
    /\ args.NL = "vesin"
    /\ \E e \in EdgeSet : e[1] # e[2] /\ e[3] # ZeroShift
    /\ \E e \in EdgeSet : e[1] = e[2]

(* ---------------- C11 ---------------- *)

Range(q) == {q[x] : x \in 1..Len(q)}

\* what backend b finds for the inputs of the current call when it is asked
\* with strict_self_interaction=True
RawList(b) ==
    CASE b = "ase" -> primitive_neighbor_list(pbc, temp_cell, args.pos, args.r_max, TRUE)
      [] b = "matscipy" -> matscipy_nl(pbc, temp_cell, args.pos, args.r_max)
      [] b = "vesin" -> vesin_nl(args.r_max, args.pos, temp_cell, pbc[1])

\* the triples of backend b that are left without the zero-shift self-pairs
KeptSet(b) == {e \in Range(RawList(b)) : ~(e[1] = e[2] /\ e[3] = ZeroShift)}

SupportedByAll ==
    /\ args.NL \in KnownNL
    /\ args.strict_self_interaction
    /\ ~args.self_interaction
    /\ ~MixedPbc

NonPeriodic == InCall /\ NormalizePbc(args.pbc) = <<FALSE, FALSE, FALSE>>

\* the cutoff reaches every pair of atoms
AllPairsInReach ==
    \A i, j \in 1..Len(args.pos) :
        (args.pos[i][1] - args.pos[j][1]) * (args.pos[i][1] - args.pos[j][1])
        + (args.pos[i][2] - args.pos[j][2]) * (args.pos[i][2] - args.pos[j][2])
        + (args.pos[i][3] - args.pos[j][3]) * (args.pos[i][3] - args.pos[j][3])
            < args.r_max * args.r_max

\* C12: a non-periodic system of N atoms, all pairs within the cutoff,
\* self_interaction=False: a call that returns has N*(N-1) edges, every
\* ordered pair of distinct atoms once with shift (0,0,0), and no self-edge
C12_CompleteGraph ==
    (Returned /\ ~args.self_interaction /\ NonPeriodic /\ AllPairsInReach)
        => /\ NumEdges = Len(args.pos) * (Len(args.pos) - 1)
           /\ \A i, j \in Atoms :
                 Cardinality({x \in 1..NumEdges : Edge(x) = <<i, j, ZeroShift>>})
                     = IF i = j THEN 0 ELSE 1
           /\ \A x \in 1..NumEdges : Edge(x)[1] # Edge(x)[2]

C12_Witness ==
    /\ Returned
    /\ ~args.self_interaction
    /\ NonPeriodic
    /\ AllPairsInReach
    /\ Len(args.pos) = 2
    /\ NumEdges = 2
    /\ args.NL = "ase"

(* ---------------- C13 ---------------- *)

\* C13: with strict_self_interaction=False no returned edge is a
\* periodic-image self-edge (source = target, shift nonzero), whatever
\* self_interaction is
C13_NoImageSelfEdge ==
    (Returned /\ ~args.strict_self_interaction)
        => \A x \in 1..NumEdges : ~(Edge(x)[1] = Edge(x)[2] /\ Edge(x)[3] # ZeroShift)

(* ---------------- devices, types and storage ---------------- *)

DevPos == {[k \in 1..2 |-> AtomSites[k]]}
DevCutoffs == {2}
DevCells == {NoCell, CellOf(<<2, 2, 2>>)}
DevPbcs == {PbcBool(FALSE), PbcBool(TRUE)}
DevNLs == {NoArg, "ase", "vesin", "lammps"}
WrittenCell == <<3, 3, 3>>

\* a call whose positions and cell are tensors, arrays or lists
CallDev ==
    CallWith(DevPos, DevCutoffs, DevCells, DevPbcs, DevNLs,
             TensorKinds \cup {HostArray}, TensorKinds \cup ArrayKinds)

\* after the return the caller writes into its own cell object; a tensor
\* that shares the storage shows the written value
WriteCallerCell ==
    /\ pc = "returned"
    /\ args.cell.given
    /\ caller_cell # WrittenCell
    /\ result.cell # WrittenCell
    /\ caller_cell' = WrittenCell
    /\ result' = IF result.cell_shares THEN [result EXCEPT !.cell = WrittenCell] ELSE result
    /\ UNCHANGED cfgvars
    /\ UNCHANGED rest
    /\ UNCHANGED locals
    /\ UNCHANGED <<pc, args, error>>

\* after the return the caller writes into the returned cell tensor
WriteReturnedCell ==
    /\ pc = "returned"
    /\ args.cell.given
    /\ caller_cell # WrittenCell
    /\ result.cell # WrittenCell
    /\ result' = [result EXCEPT !.cell = WrittenCell]
    /\ caller_cell' = IF result.cell_shares THEN WrittenCell ELSE caller_cell
    /\ UNCHANGED cfgvars
    /\ UNCHANGED rest
    /\ UNCHANGED locals
    /\ UNCHANGED <<pc, args, error>>

NextDev ==
    \/ LoadModule
    \/ CallDev
    \/ Prepare
    \/ SearchVesin
    \/ SearchMatscipy
    \/ SearchAse
    \/ NoBackend
    \/ Filter
    \/ Build
    \/ WriteCallerCell
    \/ WriteReturnedCell
    \/ Finish

SpecDev == Init /\ [][NextDev]_vars

(* ---------------- C14 ---------------- *)

OnAccelerator == InCall /\ args.pos_kind.type = "tensor" /\ args.pos_kind.device # "cpu"

C16_FreshOutputs ==
    /\ [](Returned => ~result.cell_shares)
    /\ [][((pc \in {"prepare", "dispatch", "filter", "build"})
               => (caller_cell' = caller_cell /\ args'.pos = args.pos))
           /\ (WriteCallerCell => result'.cell = result.cell)
           /\ (WriteReturnedCell => caller_cell' = caller_cell)]_vars

(* ---------------- the environment after the import ---------------- *)

EnvPos == {[k \in 1..n |-> AtomSites[k]] : n \in 1..2}
EnvCutoffs == {2}
EnvCells == {NoCell}
EnvPbcs == {PbcBool(FALSE)}
EnvNLs == {NoArg, "ase", "lammps"}

CallEnv ==
    CallWith(EnvPos, EnvCutoffs, EnvCells, EnvPbcs, EnvNLs, {HostArray}, {HostArray})

\* os.environ is changed between two calls, after the module was imported
Setenv ==
    /\ module = "loaded"
    /\ pc = "idle"
    /\ \E e \in [NEQUIP_NL : EnvNLValues, NEQUIP_ERROR_ON_NO_EDGES : EnvErrValues] :
          /\ e # env
          /\ env' = e
    /\ UNCHANGED <<module, NEQUIP_NL, ERROR_ON_NO_EDGES, pc, args, result, error,
                   caller_cell>>
    /\ UNCHANGED locals
    /\ UNCHANGED rest

\* what the caller passed: the arguments without the resolved NL default
Inputs(a) == [a EXCEPT !.NL = NoArg]

\* the caller keeps the outcome of the call to compare it with the next one
Keep ==
    /\ pc \in {"returned", "raised"}
    /\ last' = [kept |-> TRUE, inputs |-> Inputs(args), env |-> env, pc |-> pc,
                result |-> result, error |-> error]
    /\ FrameGone
    /\ UNCHANGED cfgvars
    /\ UNCHANGED <<testvars, rankvars>>

NextEnv ==
    \/ LoadModule
    \/ Setenv
    \/ CallEnv
    \/ Prepare
    \/ SearchVesin
    \/ SearchMatscipy
    \/ SearchAse
    \/ NoBackend
    \/ Filter
    \/ Build
    \/ Keep
    \/ Finish

SpecEnv == Init /\ [][NextEnv]_vars

(* ---------------- C15 ---------------- *)

SameInputsAgain ==
    /\ pc \in {"returned", "raised"}
    /\ last.kept
    /\ last.inputs = Inputs(args)

\* C15: the backend selection and the no-edges policy are fixed when the
\* module is loaded: a later change of the environment changes neither, and
\* two calls with the same inputs have the same outcome
C15_FixedAtImport ==
    /\ [][module = "loaded"
            => /\ module' = "loaded"
               /\ NEQUIP_NL' = NEQUIP_NL
               /\ ERROR_ON_NO_EDGES' = ERROR_ON_NO_EDGES]_vars
    /\ [](SameInputsAgain
            => /\ last.pc = pc
               /\ last.result = result
               /\ last.error = error)

\* the same defaulted call before and after NEQUIP_NL and the policy variable
\* were set to other, valid values
C15_Witness ==
    /\ SameInputsAgain
    /\ pc = "returned"
    /\ args.NL_arg = NoArg
    /\ last.env.NEQUIP_NL = Unset
    /\ env.NEQUIP_NL = "ase"
    /\ last.env.NEQUIP_ERROR_ON_NO_EDGES # env.NEQUIP_ERROR_ON_NO_EDGES
    /\ NumEdges > 0

\* ---------------------------------------------------------------------------
\* nequip-evaluate (scripts/evaluate.py): the test set
\* ---------------------------------------------------------------------------

\* largest dataset
MaxFrames == 3

\* set(range(n))
Frames(n) == 0 .. (n - 1)

\* the variables of the neighbor-list module, which nequip-evaluate leaves alone
nlvars == <<cfgvars, pc, args, locals, result, error, caller_cell, last>>

\* --train-dir, --dataset-config, --test-indexes: given or left out
CliInputs == [train_dir : BOOLEAN, dataset_config : BOOLEAN, test_indexes : BOOLEAN]

\* the datasets the config names and the index sets trainer.pth recorded: the
\* training indexes index the training dataset, the validation indexes index the
\* validation dataset when the config has one and the training dataset otherwise
SessionInputs ==
    { s \in [n_train : 1 .. MaxFrames, n_val : 0 .. MaxFrames,
             validation_dataset : BOOLEAN,
             train_idcs : SUBSET Frames(MaxFrames), val_idcs : SUBSET Frames(MaxFrames),
             indexes_file : SUBSET Frames(MaxFrames)] :
        /\ s.validation_dataset = (s.n_val > 0)
        /\ s.train_idcs \subseteq Frames(s.n_train)
        /\ s.val_idcs \subseteq Frames(IF s.validation_dataset THEN s.n_val ELSE s.n_train)
        /\ s.indexes_file \subseteq Frames(IF s.validation_dataset THEN s.n_val ELSE s.n_train)
        /\ (~s.validation_dataset => s.train_idcs \cap s.val_idcs = {}) }

\* main is entered with a parsed command line
InitTest ==
    /\ env = [NEQUIP_NL |-> Unset, NEQUIP_ERROR_ON_NO_EDGES |-> Unset]
    /\ NLStart
    /\ cli \in CliInputs
    /\ session \in SessionInputs
    /\ e_pc = "defaults"
    /\ dataset_is_from_training = FALSE
    /\ idcs_loaded = FALSE
    /\ train_idcs = {}
    /\ val_idcs = {}
    /\ dataset_is_validation = FALSE
    /\ dataset_len = 0
    /\ test_idcs = {}
    /\ RanksIdle

\* "Do the defaults" and "validate"
Defaults ==
    /\ e_pc = "defaults"
    /\ dataset_is_from_training' = (cli.train_dir /\ ~cli.dataset_config)
    /\ idcs_loaded' = (cli.train_dir /\ ~cli.test_indexes)
    /\ train_idcs' = IF idcs_loaded' THEN session.train_idcs ELSE {}
    /\ val_idcs' = IF idcs_loaded' THEN session.val_idcs ELSE {}
    /\ e_pc' = IF ~cli.train_dir /\ ~cli.dataset_config THEN "raised" ELSE "load"
    /\ UNCHANGED <<cli, session, dataset_is_validation, dataset_len, test_idcs>>
    /\ UNCHANGED nlvars
    /\ UNCHANGED rankvars

\* _load_datasets with prefixes validation_dataset, dataset
LoadDataset ==
    /\ e_pc = "load"
    /\ dataset_is_validation' = session.validation_dataset
    /\ dataset_len' = IF session.validation_dataset THEN session.n_val ELSE session.n_train
    /\ e_pc' = "determine"
    /\ UNCHANGED <<cli, session, dataset_is_from_training, idcs_loaded, train_idcs,
                   val_idcs, test_idcs>>
    /\ UNCHANGED nlvars
    /\ UNCHANGED rankvars

\* the set operations of the automatic test set
AutoTestSet_train_only(all_idcs, train, val, is_validation) ==
    IF is_validation THEN all_idcs ELSE all_idcs \ train

AutoTestSet(all_idcs, train, val, is_validation) ==
    IF is_validation THEN all_idcs \ val ELSE (all_idcs \ train) \ val

\* the two assertions on the automatic test set
AutoAsserts(test, train, val, is_validation) ==
    /\ (~is_validation => test \cap train = {})
    /\ test \cap val = {}

\* "Determine the test set"
DetermineTestSet ==
    /\ e_pc = "determine"
    /\ IF ~cli.test_indexes /\ dataset_is_from_training /\ idcs_loaded
         THEN LET t == AutoTestSet(Frames(dataset_len), train_idcs, val_idcs,
                                   dataset_is_validation)
              IN /\ test_idcs' = t
                 /\ e_pc' = IF AutoAsserts(t, train_idcs, val_idcs, dataset_is_validation)
                              THEN "tested" ELSE "asserted"
         ELSE IF ~cli.test_indexes
                THEN /\ test_idcs' = Frames(dataset_len)
                     /\ e_pc' = "tested"
                ELSE /\ test_idcs' = session.indexes_file
                     /\ e_pc' = "tested"
    /\ UNCHANGED <<cli, session, dataset_is_from_training, idcs_loaded, train_idcs,
                   val_idcs, dataset_is_validation, dataset_len>>
    /\ UNCHANGED nlvars
    /\ UNCHANGED rankvars

NextTest ==
    \/ Defaults
    \/ LoadDataset
    \/ DetermineTestSet

SpecTest == InitTest /\ [][NextTest]_vars

\* --test-indexes left out and the dataset taken from the training session
AutomaticTestSet == cli.train_dir /\ ~cli.dataset_config /\ ~cli.test_indexes

TestSetDetermined == e_pc \in {"tested", "asserted"}

\* C17 as stated: the automatic test set is the frames of the loaded dataset in
\* neither index set, and is disjoint from the training indexes and from the
\* validation indexes, for the training dataset and for a validation dataset.
C17_Original ==
    (TestSetDetermined /\ AutomaticTestSet) =>
        /\ e_pc = "tested"
        /\ test_idcs = Frames(dataset_len) \ (session.train_idcs \cup session.val_idcs)
        /\ test_idcs \cap session.train_idcs = {}
        /\ test_idcs \cap session.val_idcs = {}

\* C17 amended: the automatic test set is always disjoint from the validation
\* indexes; for the training dataset it is all frames minus training and
\* validation indexes; for a separate validation dataset it is all its frames
\* minus the validation indexes, the training indexes are not subtracted.
C17_Amended ==
    (TestSetDetermined /\ AutomaticTestSet) =>
        /\ e_pc = "tested"
        /\ test_idcs \cap session.val_idcs = {}
        /\ (~session.validation_dataset =>
               /\ test_idcs = Frames(session.n_train)
                                 \ (session.train_idcs \cup session.val_idcs)
               /\ test_idcs \cap session.train_idcs = {})
        /\ (session.validation_dataset =>
               test_idcs = Frames(session.n_val) \ session.val_idcs)

C17_Witness ==
    /\ e_pc = "tested"
    /\ AutomaticTestSet
    /\ session.validation_dataset
    /\ session.val_idcs # {}
    /\ test_idcs \cap session.train_idcs # {}

\* ---------------------------------------------------------------------------
\* nequip-evaluate (scripts/evaluate.py): ranks, batches and output files
\* ---------------------------------------------------------------------------

\* largest test set, --repeat, --batch-size and world size
MaxTest == 2
MaxRepeat == 2
MaxBatch == 2
MaxWorld == 3

\* main raises "Nothing to do!" unless metrics or an output are asked for; a
\* run that is not distributed is the single rank zero
OptsInputs ==
    { o \in [n : 0 .. MaxTest, repeat : 1 .. MaxRepeat, batch_size : 1 .. MaxBatch,
             distributed : BOOLEAN, world_size : 1 .. MaxWorld,
             do_metrics : BOOLEAN, output : BOOLEAN] :
        /\ (o.do_metrics \/ o.output)
        /\ (~o.distributed => o.world_size = 1) }

Ranks == 0 .. (opts.world_size - 1)

\* Tensor.tile((k,)) of a one-dimensional tensor
Tile(s, k) == [i \in 1 .. (Len(s) * k) |-> s[((i - 1) % Len(s)) + 1]]

\* s[a:b] for 0 <= a <= b
PySlice(s, a, b) == SubSeq(s, a + 1, IF b < Len(s) THEN b ELSE Len(s))

\* int(math.ceil(a / b))
CeilDiv(a, b) == (a + b - 1) \div b

\* test_idcs after the tile: every entry carries its position in the list
RepeatedTestIdcs ==
    LET t == Tile([i \in 1 .. opts.n |-> i - 1], opts.repeat)
    IN [i \in 1 .. Len(t) |-> [pos |-> i - 1, frame |-> t[i]]]

NoOutput == [open |-> FALSE, closed |-> FALSE, written |-> <<>>]

\* every rank is about to divide the frames
InitEval ==
    /\ env = [NEQUIP_NL |-> Unset, NEQUIP_ERROR_ON_NO_EDGES |-> Unset]
    /\ NLStart
    /\ TestIdle
    /\ opts \in OptsInputs
    /\ rk_pc = [r \in Ranks |-> "divide"]
    /\ rank_idcs = [r \in Ranks |-> <<>>]
    /\ batch_i = [r \in Ranks |-> 0]
    /\ this_batch_test_indexes = [r \in Ranks |-> <<>>]
    /\ evaluated = [r \in Ranks |-> <<>>]
    /\ gathers = [r \in Ranks |-> 0]
    /\ output = [r \in Ranks |-> NoOutput]
    /\ rankfile = [r \in Ranks |-> FALSE]
    /\ merged = NoFile
    /\ copied = [r \in Ranks |-> "not"]
    /\ merge_i = 0

EvalUnchanged == UNCHANGED nlvars /\ UNCHANGED testvars /\ UNCHANGED opts

\* "divide the frames between ranks"
Divide(r) ==
    /\ rk_pc[r] = "divide"
    /\ LET n_per_rank == CeilDiv(Len(RepeatedTestIdcs), opts.world_size)
       IN rank_idcs' = [rank_idcs EXCEPT ![r] =
              IF opts.distributed
                THEN PySlice(RepeatedTestIdcs, r * n_per_rank, (r + 1) * n_per_rank)
                ELSE RepeatedTestIdcs]
    /\ batch_i' = [batch_i EXCEPT ![r] = 0]
    /\ rk_pc' = [rk_pc EXCEPT ![r] = "open"]
    /\ UNCHANGED <<this_batch_test_indexes, evaluated, gathers, output, rankfile,
                   merged, copied, merge_i>>
    /\ EvalUnchanged

\* open(outfile, "w"): the rank's own file when distributed, args.output otherwise
OpenOutput(r) ==
    /\ rk_pc[r] = "open"
    /\ IF opts.output
         THEN /\ output' = [output EXCEPT ![r] =
                               [open |-> TRUE, closed |-> FALSE, written |-> <<>>]]
              /\ IF opts.distributed
                   THEN rankfile' = [rankfile EXCEPT ![r] = TRUE] /\ UNCHANGED merged
                   ELSE merged' = [exists |-> TRUE, content |-> <<>>]
                        /\ UNCHANGED rankfile
         ELSE UNCHANGED <<output, rankfile, merged>>
    /\ rk_pc' = [rk_pc EXCEPT ![r] = "batch"]
    /\ UNCHANGED <<rank_idcs, batch_i, this_batch_test_indexes, evaluated, gathers,
                   copied, merge_i>>
    /\ EvalUnchanged

\* the head of the loop: slice the batch, break when it is empty, run the model
TakeBatch(r) ==
    /\ rk_pc[r] = "batch"
    /\ LET b == PySlice(rank_idcs[r], batch_i[r] * opts.batch_size,
                        (batch_i[r] + 1) * opts.batch_size)
       IN /\ this_batch_test_indexes' = [this_batch_test_indexes EXCEPT ![r] = b]
          /\ IF Len(b) = 0
               THEN rk_pc' = [rk_pc EXCEPT ![r] = "close"] /\ UNCHANGED evaluated
               ELSE /\ rk_pc' = [rk_pc EXCEPT ![r] = "write"]
                    /\ evaluated' = [evaluated EXCEPT ![r] = Append(@, b)]
    /\ UNCHANGED <<rank_idcs, batch_i, gathers, output, rankfile, merged, copied,
                   merge_i>>
    /\ EvalUnchanged

\* "Write output": ase.io.write appends the frames of the batch to the file object
WriteOutput(r) ==
    /\ rk_pc[r] = "write"
    /\ output' = IF opts.output
                   THEN [output EXCEPT ![r].written = @ \o this_batch_test_indexes[r]]
                   ELSE output
    /\ rk_pc' = [rk_pc EXCEPT ![r] = "metrics"]
    /\ UNCHANGED <<rank_idcs, batch_i, this_batch_test_indexes, evaluated, gathers,
                   rankfile, merged, copied, merge_i>>
    /\ EvalUnchanged

\* "Accumulate metrics": metrics(out, batch), then the call of metrics.gather
\* when distributed; without a gather the iteration ends here with batch_i += 1
AccumulateMetrics(r) ==
    /\ rk_pc[r] = "metrics"
    /\ IF opts.do_metrics /\ opts.distributed
         THEN /\ gathers' = [gathers EXCEPT ![r] = @ + 1]
              /\ rk_pc' = [rk_pc EXCEPT ![r] = "gather"]
              /\ UNCHANGED batch_i
         ELSE /\ batch_i' = [batch_i EXCEPT ![r] = @ + 1]
              /\ rk_pc' = [rk_pc EXCEPT ![r] = "batch"]
              /\ UNCHANGED gathers
    /\ UNCHANGED <<rank_idcs, this_batch_test_indexes, evaluated, output, rankfile,
                   merged, copied, merge_i>>
    /\ EvalUnchanged

\* a collective of torch.distributed returns once every rank of the group has
\* made the matching call
GatherReturns(r) == \A q \in Ranks : gathers[q] >= gathers[r]

\* metrics.gather returns; the iteration ends with batch_i += 1
Gather(r) ==
    /\ rk_pc[r] = "gather"
    /\ GatherReturns(r)
    /\ batch_i' = [batch_i EXCEPT ![r] = @ + 1]
    /\ rk_pc' = [rk_pc EXCEPT ![r] = "batch"]
    /\ UNCHANGED <<rank_idcs, this_batch_test_indexes, evaluated, gathers, output,
                   rankfile, merged, copied, merge_i>>
    /\ EvalUnchanged

\* the ExitStack closes the rank's output file
CloseOutput(r) ==
    /\ rk_pc[r] = "close"
    /\ IF opts.output
         THEN /\ output' = [output EXCEPT ![r].open = FALSE, ![r].closed = TRUE]
              /\ merged' = IF opts.distributed
                             THEN merged
                             ELSE [merged EXCEPT !.content = output[r].written]
         ELSE UNCHANGED <<output, merged>>
    /\ rk_pc' = [rk_pc EXCEPT ![r] =
                    IF opts.distributed /\ opts.output THEN "sync" ELSE "end"]
    /\ UNCHANGED <<rank_idcs, batch_i, this_batch_test_indexes, evaluated, gathers,
                   rankfile, copied, merge_i>>
    /\ EvalUnchanged

\* os.sync() of a distributed run with an output; only rank zero goes on to merge
Sync(r) ==
    /\ rk_pc[r] = "sync"
    /\ rk_pc' = [rk_pc EXCEPT ![r] = IF r = 0 THEN "merge" ELSE "end"]
    /\ UNCHANGED <<rank_idcs, batch_i, this_batch_test_indexes, evaluated, gathers,
                   output, rankfile, merged, copied, merge_i>>
    /\ EvalUnchanged

\* rank zero: open(args.output, "wb")
MergeOpen ==
    /\ 0 \in Ranks
    /\ rk_pc[0] = "merge"
    /\ merged' = [exists |-> TRUE, content |-> <<>>]
    /\ merge_i' = 0
    /\ rk_pc' = [rk_pc EXCEPT ![0] = "copy"]
    /\ UNCHANGED <<rank_idcs, batch_i, this_batch_test_indexes, evaluated, gathers,
                   output, rankfile, copied>>
    /\ EvalUnchanged

\* what open(f, "rb") and copyfileobj find in a rank's file: all its frames once
\* the writer has closed it, and before that whatever prefix has left the
\* writer's buffer
Readable(r) ==
    IF output[r].closed
      THEN {output[r].written}
      ELSE {SubSeq(output[r].written, 1, k) : k \in 0 .. Len(output[r].written)}

\* rank zero: copy the next rank file into args.output; after the last, os.sync()
Copy ==
    /\ 0 \in Ranks
    /\ rk_pc[0] = "copy"
    /\ IF merge_i = opts.world_size
         THEN /\ rk_pc' = [rk_pc EXCEPT ![0] = "unlink"]
              /\ merge_i' = 0
              /\ UNCHANGED <<merged, copied>>
         ELSE IF ~rankfile[merge_i]
                THEN /\ rk_pc' = [rk_pc EXCEPT ![0] = "raised"]
                     /\ copied' = [copied EXCEPT ![merge_i] = "missing"]
                     /\ UNCHANGED <<merged, merge_i>>
                ELSE /\ \E c \in Readable(merge_i) :
                            merged' = [merged EXCEPT !.content = @ \o c]
                     /\ copied' = [copied EXCEPT ![merge_i] =
                                      IF output[merge_i].closed THEN "closed" ELSE "open"]
                     /\ merge_i' = merge_i + 1
                     /\ UNCHANGED rk_pc
    /\ UNCHANGED <<rank_idcs, batch_i, this_batch_test_indexes, evaluated, gathers,
                   output, rankfile>>
    /\ EvalUnchanged

\* rank zero: "delete old ones"
Unlink ==
    /\ 0 \in Ranks
    /\ rk_pc[0] = "unlink"
    /\ IF merge_i = opts.world_size
         THEN /\ rk_pc' = [rk_pc EXCEPT ![0] = "end"]
              /\ UNCHANGED <<rankfile, merge_i>>
         ELSE /\ rankfile' = [rankfile EXCEPT ![merge_i] = FALSE]
              /\ merge_i' = merge_i + 1
              /\ UNCHANGED rk_pc
    /\ UNCHANGED <<rank_idcs, batch_i, this_batch_test_indexes, evaluated, gathers,
                   output, merged, copied>>
    /\ EvalUnchanged

NextEval ==
    \/ \E r \in Ranks : Divide(r)
    \/ \E r \in Ranks : OpenOutput(r)
    \/ \E r \in Ranks : TakeBatch(r)
    \/ \E r \in Ranks : WriteOutput(r)
    \/ \E r \in Ranks : AccumulateMetrics(r)
    \/ \E r \in Ranks : Gather(r)
    \/ \E r \in Ranks : CloseOutput(r)
    \/ \E r \in Ranks : Sync(r)
    \/ MergeOpen
    \/ Copy
    \/ Unlink

SpecEval == InitEval /\ [][NextEval]_vars

\* the rank is past its batch loop
LeftLoop(r) == rk_pc[r] \in {"close", "sync", "merge", "copy", "unlink", "end", "raised"}

\* the rank waits in a gather that a rank which has left its loop will never join
WaitsForever(r) ==
    /\ rk_pc[r] = "gather"
    /\ \E q \in Ranks : LeftLoop(q) /\ gathers[q] < gathers[r]

\* no rank will take another step
Halted == \A r \in Ranks : rk_pc[r] \in {"end", "raised"} \/ WaitsForever(r)

Positions == 0 .. (opts.n * opts.repeat - 1)

\* the places (rank, batch, place in the batch) where a position was evaluated
EvaluatedAt(p) ==
    { t \in Ranks \X (1 .. MaxTest * MaxRepeat + 1) \X (1 .. MaxBatch + 1) :
        /\ t[2] <= Len(evaluated[t[1]])
        /\ t[3] <= Len(evaluated[t[1]][t[2]])
        /\ evaluated[t[1]][t[2]][t[3]].pos = p }

\* the batches of a rank, one after the other
RECURSIVE Flatten(_)
Flatten(bs) == IF bs = <<>> THEN <<>> ELSE Head(bs) \o Flatten(Tail(bs))

\* the slices of ranks lo .. world_size - 1, one after the other
RECURSIVE SlicesFrom(_)
SlicesFrom(lo) ==
    IF lo >= opts.world_size THEN <<>> ELSE rank_idcs[lo] \o SlicesFrom(lo + 1)

\* The division itself is exact: no position is ever evaluated twice, the
\* slices of the ranks, in rank order, are the repeated list, and a rank that
\* has left its loop has evaluated its slice in order.
DivisionIsExact ==
    /\ \A p \in Positions : Cardinality(EvaluatedAt(p)) <= 1
    /\ ((\A r \in Ranks : rk_pc[r] # "divide") => SlicesFrom(0) = RepeatedTestIdcs)
    /\ \A r \in Ranks : LeftLoop(r) => Flatten(evaluated[r]) = rank_idcs[r]

\* C18: for every test set size, --repeat, --batch-size and world size, every
\* position of the repeated test index list is evaluated by exactly one rank in
\* exactly one batch, and every rank's batch loop ends after its last non-empty
\* batch: once no rank can take a step, every rank has left its loop and every
\* position has been evaluated exactly once.
C18_EveryPositionOnce ==
    /\ \A p \in Positions : Cardinality(EvaluatedAt(p)) <= 1
    /\ Halted =>
          /\ \A r \in Ranks : LeftLoop(r)
          /\ \A p \in Positions : Cardinality(EvaluatedAt(p)) = 1

\* C19: every rank calls metrics.gather the same number of times, so that no
\* rank waits forever: no rank has made more calls than a rank that has left
\* its loop, and no rank waits in a gather that another rank will never join.
C19_SameGatherCount ==
    /\ \A r \in Ranks : \A q \in Ranks : LeftLoop(q) => gathers[r] <= gathers[q]
    /\ \A r \in Ranks : ~WaitsForever(r)

\* C20: rank zero copies a rank's output file only after that rank has written
\* its last frame and closed the file, every rank file exists when it is
\* opened, and the merged file holds every frame.
C20_MergeAfterClose ==
    /\ \A r \in Ranks : copied[r] \in {"not", "closed"}
    /\ ((opts.distributed /\ opts.output /\ rk_pc[0] \in {"unlink", "end"}) =>
           /\ Len(merged.content) = Cardinality(Positions)
           /\ {merged.content[i].pos : i \in 1 .. Len(merged.content)} = Positions)

====
